---- MODULE Spec2Model ----
(***************************************************************************)
(* Model of the YouTube downloader backend (src/app.py and src/ts.py).     *)
(*                                                                         *)
(* Python values that may be None are wrapped: None is <<>> and a value v  *)
(* is <<v>>.  A dict is a function whose DOMAIN is the set of keys that    *)
(* are present.  Strings the code searches or slices (URLs, identifiers,   *)
(* file names) are sequences of one-character strings.                     *)
(***************************************************************************)
EXTENDS Integers, Sequences, FiniteSets, TLC

VARIABLES
    variant,            \* which of the two server files runs: "app" or "ts"
    files,              \* DOWNLOAD_DIR: set of [name, ctime]
    clock,              \* creation-time source of the file system
    download_progress,  \* ts.py:19, dict video id -> snapshot
    calls,              \* per key, the last callback that reported progress, the request
                        \* thread it came from and what it replaced
    dl,                 \* per request thread: the /api/download in flight
    resp,               \* the last response sent
    arg,                \* argument of the function applied on its own
    ret                 \* its result, or Pending

vars == <<variant, files, clock, download_progress, calls, dl, resp, arg, ret>>

(***************************************************************************)
(* Python values                                                           *)
(***************************************************************************)
PyNone == <<>>

EmptyQualityMap == [h \in {} |-> PyNone]

Some(v) == <<v>>

Val(o) == o[1]

\* dict.get(key, default): the default only replaces an absent key
Get(d, k, default) == IF k \in DOMAIN d THEN d[k] ELSE default

\* truthiness of a wrapped number
TruthyNum(o) == o # PyNone /\ Val(o) # 0

\* truthiness of a wrapped string
TruthyStr(o) == o # PyNone /\ Val(o) # <<>>

Pending == "pending"

(***************************************************************************)
(* Character strings                                                       *)
(***************************************************************************)
WATCH_LIT == <<"y","o","u","t","u","b","e",".","c","o","m","/","w","a","t","c","h","?","v","=">>

SHORT_LIT == <<"y","o","u","t","u",".","b","e","/">>

EMBED_LIT == <<"y","o","u","t","u","b","e",".","c","o","m","/","e","m","b","e","d","/">>

V_LIT == <<"y","o","u","t","u","b","e",".","c","o","m","/","v","/">>

\* the characters the capture group [^&\n?#]+ refuses
Excluded == {"&", "\n", "?", "#"}

\* the ordered pattern list; each pattern is its ordered list of alternatives
patterns == << <<WATCH_LIT, SHORT_LIT>>, <<EMBED_LIT>>, <<V_LIT>> >>

\* the literal lit occurs in s at position i
LitAt(lit, s, i) ==
    /\ i + Len(lit) - 1 <= Len(s)
    /\ \A k \in 1..Len(lit) : s[i + k - 1] = lit[k]

\* the alternative lit followed by at least one capturable character matches at i
AltAt(lit, s, i) ==
    /\ LitAt(lit, s, i)
    /\ i + Len(lit) <= Len(s)
    /\ s[i + Len(lit)] \notin Excluded

\* the greedy capture starting at j: the maximal run of capturable characters
CaptureFrom(s, j) ==
    LET e == CHOOSE x \in j..Len(s) :
                 /\ \A k \in j..x : s[k] \notin Excluded
                 /\ (x = Len(s) \/ s[x + 1] \in Excluded)
    IN  SubSeq(s, j, e)

PatternMatches(p, s) == \E i \in 1..Len(s) : \E a \in 1..Len(p) : AltAt(p[a], s, i)

\* re.search(pattern, url).group(1): leftmost position, first alternative there
SearchGroup(p, s) ==
    LET i == CHOOSE x \in 1..Len(s) :
                 /\ \E a \in 1..Len(p) : AltAt(p[a], s, x)
                 /\ \A y \in 1..(x - 1) : \A a \in 1..Len(p) : ~AltAt(p[a], s, y)
        a == CHOOSE x \in 1..Len(p) :
                 /\ AltAt(p[x], s, i)
                 /\ \A y \in 1..(x - 1) : ~AltAt(p[y], s, i)
    IN  CaptureFrom(s, i + Len(p[a]))

\* a bug: the patterns are tried last to first
extract_video_id_reversed(url) ==
    IF PatternMatches(patterns[3], url) THEN Some(SearchGroup(patterns[3], url))
    ELSE IF PatternMatches(patterns[2], url) THEN Some(SearchGroup(patterns[2], url))
    ELSE IF PatternMatches(patterns[1], url) THEN Some(SearchGroup(patterns[1], url))
    ELSE PyNone

extract_video_id(url) ==
    IF PatternMatches(patterns[1], url) THEN Some(SearchGroup(patterns[1], url))
    ELSE IF PatternMatches(patterns[2], url) THEN Some(SearchGroup(patterns[2], url))
    ELSE IF PatternMatches(patterns[3], url) THEN Some(SearchGroup(patterns[3], url))
    ELSE PyNone

(***************************************************************************)
(* Numbers.  Bitrates are Python floats; they are kept as exact fractions   *)
(* [n, d] so that int() has something to truncate.                          *)
(***************************************************************************)
Rat(n, d) == [n |-> n, d |-> d]

RatGt(a, b) == a.n * b.d > b.n * a.d

TruthyRat(o) == o # PyNone /\ Val(o).n # 0

Ok(v) == [ok |-> TRUE, v |-> v]

Raise(e) == [ok |-> FALSE, exc |-> e]

\* a > b on wrapped floats; comparing None raises TypeError
PyGt(a, b) ==
    IF a = PyNone \/ b = PyNone THEN Raise("TypeError") ELSE Ok(RatGt(Val(a), Val(b)))

\* Python's `x or y` on wrapped integers
PyOr(x, y) == IF TruthyNum(x) THEN x ELSE y

RECURSIVE Pow1024(_)
Pow1024(k) == IF k = 0 THEN 1 ELSE 1024 * Pow1024(k - 1)

RECURSIVE Pow10(_)
Pow10(k) == IF k = 0 THEN 1 ELSE 10 * Pow10(k - 1)

UNITS == <<"B", "KB", "MB", "GB">>

\* format_bytes: the first unit in which the size is below 1024, the size in
\* that unit rounded to `decimals` places (kept as an integer count of the
\* last place), "TB" after the four units.  app.py prints two decimals and
\* ts.py one.  The remainder is cut to 20 bits before it is rounded, which
\* keeps the arithmetic inside 32 bits.
format_bytes(size, decimals) ==
    IF ~TruthyNum(size) THEN [text |-> "Unknown"]
    ELSE LET small == { k \in 1..Len(UNITS) : Val(size) \div Pow1024(k - 1) < 1024 }
             k == IF small = {} THEN Len(UNITS) + 1
                  ELSE CHOOSE x \in small : \A y \in small : x <= y
             den == Pow1024(k - 1)
             cut == IF k > 3 THEN Pow1024(k - 3) ELSE 1
             whole == Val(size) \div den
             rest == (Val(size) % den) \div cut
         IN  [digits |-> whole * Pow10(decimals)
                         + (2 * rest * Pow10(decimals) + den \div cut) \div (2 * (den \div cut)),
              decimals |-> decimals,
              unit |-> IF k > Len(UNITS) THEN "TB" ELSE UNITS[k]]

Decimals(v) == IF v = "app" THEN 2 ELSE 1

Pad2(n) == IF n < 10 THEN "0" \o ToString(n) ELSE ToString(n)

\* format_duration: H:MM:SS with hours, else M:SS; "0:00" for a falsy duration
format_duration(seconds) ==
    IF ~TruthyNum(seconds) THEN "0:00"
    ELSE LET hours == Val(seconds) \div 3600
             minutes == (Val(seconds) % 3600) \div 60
             secs == Val(seconds) % 60
         IN  IF hours > 0
             THEN ToString(hours) \o ":" \o Pad2(minutes) \o ":" \o Pad2(secs)
             ELSE ToString(minutes) \o ":" \o Pad2(secs)

(***************************************************************************)
(* get_video_info: the normalizer                                          *)
(***************************************************************************)
common_resolutions == <<2160, 1440, 1080, 720, 480, 360, 240, 144>>

\* f.get('vcodec') != 'none' and f.get('height')
HasVideo(f) ==
    /\ Get(f, "vcodec", PyNone) # Some("none")
    /\ TruthyNum(Get(f, "height", PyNone))

\* f.get('acodec') != 'none' and f.get('vcodec') == 'none'
AudioOnly(f) ==
    /\ Get(f, "acodec", PyNone) # Some("none")
    /\ Get(f, "vcodec", PyNone) = Some("none")

FormatsOf(info) == Get(info, "formats", <<>>)

video_formats(info) == SelectSeq(FormatsOf(info), HasVideo)

audio_formats(info) == SelectSeq(FormatsOf(info), AudioOnly)

Put(d, k, v) == [x \in DOMAIN d \cup {k} |-> IF x = k THEN v ELSE d[x]]

\* the loop that fills quality_map: the first variant of a height is kept
\* until one with a strictly greater tbr comes
RECURSIVE quality_map(_, _)
quality_map(fs, qm) ==
    IF fs = <<>> THEN Ok(qm)
    ELSE LET f == Head(fs)
             height == Val(f["height"])
         IN  IF height \notin DOMAIN qm
             THEN quality_map(Tail(fs), Put(qm, height, f))
             ELSE LET gt == PyGt(Get(f, "tbr", Some(Rat(0, 1))),
                                 Get(qm[height], "tbr", Some(Rat(0, 1))))
                  IN  IF ~gt.ok THEN gt
                      ELSE IF gt.v THEN quality_map(Tail(fs), Put(qm, height, f))
                      ELSE quality_map(Tail(fs), qm)

\* the selection expression of a video tier
format_string(height) ==
    "bestvideo[height=" \o ToString(height) \o "]+bestaudio/"
    \o "bestvideo[height<=" \o ToString(height) \o "]+bestaudio/"
    \o "best[height<=" \o ToString(height) \o "]"

\* a bug: kilobits taken as 1000 bits
EstimateSize1000(tbr, duration) == (tbr.n * duration * 1000) \div (8 * tbr.d)

\* int((tbr * duration * 1024) / 8)
EstimateSize(tbr, duration) == (tbr.n * duration * 1024) \div (8 * tbr.d)

\* the byte size of a video tier
video_filesize(f, info) ==
    LET filesize == PyOr(Get(f, "filesize", PyNone), Get(f, "filesize_approx", Some(0)))
    IN  IF /\ ~TruthyNum(filesize)
           /\ TruthyRat(Get(f, "tbr", PyNone))
           /\ TruthyNum(Get(info, "duration", PyNone))
        THEN Some(EstimateSize(Val(f["tbr"]), Val(info["duration"])))
        ELSE filesize

\* the byte size of the audio tier
audio_filesize(f) == PyOr(Get(f, "filesize", PyNone), Get(f, "filesize_approx", Some(0)))

video_tier(height, f, info, v) ==
    LET filesize == video_filesize(f, info)
    IN  [format_id |-> format_string(height),
         quality |-> ToString(height) \o "p",
         ext |-> "mp4",
         filesize |-> filesize,
         filesize_str |-> IF TruthyNum(filesize) THEN format_bytes(filesize, Decimals(v))
                          ELSE [text |-> "Estimated"],
         fps |-> Get(f, "fps", Some(30)),
         vcodec |-> Get(f, "vcodec", Some("h264")),
         acodec |-> "aac"]

\* the loop over common_resolutions
RECURSIVE video_tiers(_, _, _, _)
video_tiers(hs, qm, info, v) ==
    IF hs = <<>> THEN <<>>
    ELSE IF Head(hs) \in DOMAIN qm
         THEN <<video_tier(Head(hs), qm[Head(hs)], info, v)>> \o video_tiers(Tail(hs), qm, info, v)
         ELSE video_tiers(Tail(hs), qm, info, v)

\* max(audio_formats, key=lambda x: x.get('abr', 0)): the first maximal one;
\* every later key is compared with the running maximum
RECURSIVE best_audio(_, _)
best_audio(fs, best) ==
    IF fs = <<>> THEN Ok(best)
    ELSE LET gt == PyGt(Get(Head(fs), "abr", Some(Rat(0, 1))), Get(best, "abr", Some(Rat(0, 1))))
         IN  IF ~gt.ok THEN gt
             ELSE best_audio(Tail(fs), IF gt.v THEN Head(fs) ELSE best)

audio_tier(f, v) ==
    LET filesize == audio_filesize(f)
    IN  [format_id |-> "bestaudio",
         quality |-> "Audio Only",
         ext |-> "mp3",
         filesize |-> filesize,
         filesize_str |-> IF TruthyNum(filesize) THEN format_bytes(filesize, Decimals(v))
                          ELSE [text |-> "Unknown"],
         abr |-> Get(f, "abr", PyNone),
         acodec |-> Get(f, "acodec", PyNone)]

\* the formats list of the response, or the exception the loops raise
formats_of(info, v) ==
    LET qm == quality_map(video_formats(info), EmptyQualityMap)
        af == audio_formats(info)
        ba == IF af = <<>> THEN Ok(PyNone) ELSE best_audio(Tail(af), Head(af))
    IN  IF ~qm.ok THEN qm
        ELSE IF ~ba.ok THEN ba
        ELSE Ok(video_tiers(common_resolutions, qm.v, info, v)
                \o (IF af = <<>> THEN <<>> ELSE <<audio_tier(ba.v, v)>>))

(***************************************************************************)
(* Requests and responses                                                  *)
(***************************************************************************)
\* request.get_json(): a malformed body raises BadRequest; a body that is
\* the JSON value null gives None; a request without a JSON body gives None
\* or raises, depending on the Flask release; an object gives the dict.
get_json(body) ==
    CASE body.kind = "malformed" -> {Raise("BadRequest")}
      [] body.kind = "absent"    -> {Ok(PyNone), Raise("UnsupportedMediaType")}
      [] body.kind = "null"      -> {Ok(PyNone)}
      [] OTHER                   -> {Ok(Some(body.json))}

Response(status, body) == [status |-> status, body |-> body]

Error(status, msg) == Response(status, [error |-> msg])

\* data.get(key) on what get_json returned: None has no .get
DataGet(data, k, default) ==
    IF data = PyNone THEN Raise("AttributeError") ELSE Ok(Get(Val(data), k, default))

\* app.py: data.get('url') if data else None (an empty dict is falsy too)
GuardedUrl(data) ==
    IF data = PyNone \/ DOMAIN Val(data) = {} THEN Ok(PyNone)
    ELSE Ok(Get(Val(data), "url", PyNone))

\* how get_video_info reads the url: guarded in app.py, bare in ts.py
InfoUrl(v, data) == IF v = "app" THEN GuardedUrl(data) ELSE DataGet(data, "url", PyNone)

\* how download_video reads the url: bare in both files
DownloadUrl(v, data) == DataGet(data, "url", PyNone)

InvalidUrlMsg(v) == IF v = "app" THEN "Invalid URL" ELSE "Invalid YouTube URL"

\* a bug: no except clause, the framework answers with its own error page
CatchNothing(r) == IF r.ok THEN r.v ELSE Response(500, [html |-> "Internal Server Error"])

\* what the handlers' `except Exception as e` gives back:
\* jsonify({'error': str(e)}), 500
Catch(r) == IF r.ok THEN r.v ELSE Error(500, r.exc)

\* the try block of get_video_info: `json` is what request.get_json() did
\* and `tool` what ydl.extract_info(url, download=False) does
video_info_try(v, json, tool) ==
    IF ~json.ok THEN json
    ELSE LET url == InfoUrl(v, json.v)
         IN  IF ~url.ok THEN url
             ELSE IF ~TruthyStr(url.v) THEN Ok(Error(400, "URL is required"))
             ELSE LET video_id == extract_video_id(Val(url.v))
                  IN  IF video_id = PyNone THEN Ok(Error(400, InvalidUrlMsg(v)))
                      ELSE IF ~tool.ok THEN tool
                      ELSE LET info == tool.v
                               formats == formats_of(info, v)
                           IN  IF ~formats.ok THEN formats
                               ELSE Ok(Response(200,
                                        [id |-> Val(video_id),
                                         title |-> Get(info, "title", PyNone),
                                         duration |-> format_duration(Get(info, "duration", Some(0))),
                                         duration_seconds |-> Get(info, "duration", Some(0)),
                                         formats |-> formats.v]))

LOWER == [c \in {"A", "D", "I", "L", "N", "O", "U", "Y"} |->
            CASE c = "A" -> "a" [] c = "D" -> "d" [] c = "I" -> "i" [] c = "L" -> "l"
              [] c = "N" -> "n" [] c = "O" -> "o" [] c = "U" -> "u" [] OTHER -> "y"]

\* str.lower() on the letters the requests use
Lower(s) == [i \in 1..Len(s) |-> IF s[i] \in DOMAIN LOWER THEN LOWER[s[i]] ELSE s[i]]

\* `sub in s`
Contains(sub, s) == \E i \in 1..(Len(s) + 1) : LitAt(sub, s, i)

AUDIO == <<"a","u","d","i","o">>

\* 'audio' in quality.lower() or format_id == 'bestaudio'
WantsAudio(quality, format_id) ==
    Contains(AUDIO, Lower(quality)) \/ format_id = Some("bestaudio")

\* the options of the audio-only pipeline
AudioOpts(base) ==
    [base EXCEPT !.format = Some("bestaudio/best"),
                 !.postprocessors = <<[key |-> "FFmpegExtractAudio",
                                       preferredcodec |-> "mp3",
                                       preferredquality |-> "192"]>>]

\* a bug: the merge to mp4 is left out
VideoOptsNoMerge(base, format_id) ==
    [base EXCEPT !.format = format_id,
                 !.postprocessors = <<[key |-> "FFmpegVideoConvertor",
                                       preferedformat |-> "mp4"]>>]

\* the options of the video pipeline: format_id as it came, None included
VideoOpts(base, format_id) ==
    [base EXCEPT !.format = format_id,
                 !.merge_output_format = Some("mp4"),
                 !.postprocessors = <<[key |-> "FFmpegVideoConvertor",
                                       preferedformat |-> "mp4"]>>]

\* a variation the code does not have: a template of its own for each request
BaseOptsPerRequest(v, video_id) ==
    [outtmpl |-> video_id \o <<ToString(clock), "_">>,
     progress_hooks |-> IF v = "ts" THEN <<"progress_hook">> ELSE <<>>,
     format |-> PyNone,
     merge_output_format |-> PyNone,
     postprocessors |-> <<>>]

\* ydl_opts before the pipeline is chosen; only ts.py registers progress_hook
BaseOpts(v, video_id) ==
    [outtmpl |-> video_id \o <<"_">>,
     progress_hooks |-> IF v = "ts" THEN <<"progress_hook">> ELSE <<>>,
     format |-> PyNone,
     merge_output_format |-> PyNone,
     postprocessors |-> <<>>]

\* the try block of download_video up to the call of the tool: an early
\* response, or the identifier and the options handed to yt_dlp.YoutubeDL
configure(v, json) ==
    IF ~json.ok THEN json
    ELSE LET url == DownloadUrl(v, json.v)
         IN  IF ~url.ok THEN url
             ELSE LET format_id == Get(Val(json.v), "format_id", PyNone)
                      quality == Get(Val(json.v), "quality", Some(<<>>))
                  IN  IF ~TruthyStr(url.v)
                      THEN Ok([done |-> TRUE, response |-> Error(400, "URL is required")])
                      ELSE LET video_id == extract_video_id(Val(url.v))
                           IN  IF video_id = PyNone
                               THEN Ok([done |-> TRUE, response |-> Error(400, "Invalid YouTube URL")])
                               ELSE IF quality = PyNone THEN Raise("AttributeError")
                               ELSE Ok([done |-> FALSE,
                                        video_id |-> Val(video_id),
                                        ydl_opts |->
                                            IF WantsAudio(Val(quality), format_id)
                                            THEN AudioOpts(BaseOpts(v, Val(video_id)))
                                            ELSE VideoOpts(BaseOpts(v, Val(video_id)), format_id)])

(***************************************************************************)
(* State after construction                                                *)
(***************************************************************************)
Threads == {"t1", "t2"}

EmptyDict == [k \in {} |-> PyNone]

Idle == [pc |-> "idle"]

NoResp == [handler |-> "none"]

\* module level of app.py / ts.py: the app object, DOWNLOAD_DIR, download_progress
ServerInit ==
    /\ variant \in {"app", "ts"}
    /\ files = {}
    /\ clock = 1
    /\ download_progress = EmptyDict
    /\ calls = EmptyDict
    /\ dl = [t \in Threads |-> Idle]
    /\ resp = NoResp

serverVars == <<variant, files, clock, download_progress, calls, dl, resp>>

(***************************************************************************)
(* The output directory and the file locator                               *)
(***************************************************************************)
MP4 == <<"m","p","4">>

MP3 == <<"m","p","3">>

M4A == <<"m","4","a">>

WEBM == <<"w","e","b","m">>

PART == <<"p","a","r","t">>

DOT == <<".">>

FileName(prefix, title, ext) == prefix \o title \o DOT \o ext

\* name.rsplit('.', 1)[0]
Stem(name) ==
    LET dots == { i \in 1..Len(name) : name[i] = "." }
    IN  IF dots = {} THEN name
        ELSE SubSeq(name, 1, (CHOOSE i \in dots : \A j \in dots : j <= i) - 1)

possible_files(base_filename) ==
    <<base_filename,
      Stem(base_filename) \o DOT \o MP4,
      Stem(base_filename) \o DOT \o MP3,
      Stem(base_filename) \o DOT \o M4A,
      Stem(base_filename) \o DOT \o WEBM>>

\* os.path.exists / Path.exists inside DOWNLOAD_DIR
Exists(fs, name) == \E f \in fs : f.name = name

\* a glob pattern against a file name: "*" stands for any run of
\* characters, every other character of these patterns for itself (the
\* identifiers of this model carry no "?", "[" or "/")
RECURSIVE Fnmatch(_, _)
Fnmatch(pat, name) ==
    IF pat = <<>> THEN name = <<>>
    ELSE IF Head(pat) = "*"
    THEN \E k \in 0..Len(name) : Fnmatch(Tail(pat), SubSeq(name, k + 1, Len(name)))
    ELSE /\ name # <<>>
         /\ Head(name) = Head(pat)
         /\ Fnmatch(Tail(pat), Tail(name))

\* DOWNLOAD_DIR.glob(f'{video_id}_*'): the identifier is part of the pattern
Glob(fs, video_id) == { f \in fs : Fnmatch(video_id \o <<"_", "*">>, f.name) }

\* the files max(all_files, key=os.path.getctime) may return
Newest(all_files) == { f \in all_files : \A g \in all_files : g.ctime <= f.ctime }

\* the first candidate that exists, or None
FirstExisting(fs, cands) ==
    LET hits == { i \in 1..Len(cands) : Exists(fs, cands[i]) }
    IN  IF hits = {} THEN PyNone
        ELSE Some(cands[CHOOSE i \in hits : \A j \in hits : i <= j])

\* the names the locator may settle on: download_video after extract_info
\* returned; the empty set is the "file not found" case
Located(fs, video_id, base_filename) ==
    LET found == FirstExisting(fs, possible_files(base_filename))
        all_files == Glob(fs, video_id)
    IN  IF found # PyNone THEN {Val(found)}
        ELSE { f.name : f \in Newest(all_files) }

Located_response(name, video_id) ==
    Response(200, [success |-> TRUE, filename |-> name, file_path |-> name,
                   download_id |-> video_id])

Write(fs, name, now) == { f \in fs : f.name # name } \cup {[name |-> name, ctime |-> now]}

Remove(fs, name) == { f \in fs : f.name # name }

(***************************************************************************)
(* The progress store                                                      *)
(***************************************************************************)
UNKNOWN == <<"u","n","k","n","o","w","n">>

\* d.get('info_dict', {}).get('id', 'unknown')
HookKey(d) == Val(Get(Val(Get(d, "info_dict", Some(EmptyDict))), "id", Some(UNKNOWN)))

\* the snapshot progress_hook stores while downloading
Downloading(d) ==
    [status |-> "downloading",
     percent |-> Get(d, "_percent_str", Some("0%")),
     speed |-> Get(d, "_speed_str", Some("N/A")),
     eta |-> Get(d, "_eta_str", Some("N/A"))]

\* the snapshot progress_hook stores on completion
Finished(d) == [status |-> "finished", filename |-> Get(d, "filename", PyNone)]

\* a bug: the first snapshot of a key is kept
progress_hook_keep_first(dp, d) ==
    IF HookKey(d) \in DOMAIN dp THEN dp
    ELSE IF d["status"] = Some("downloading") THEN Put(dp, HookKey(d), Downloading(d))
    ELSE IF d["status"] = Some("finished") THEN Put(dp, HookKey(d), Finished(d))
    ELSE dp

\* progress_hook(d): the dict after the call
progress_hook(dp, d) ==
    IF d["status"] = Some("downloading") THEN Put(dp, HookKey(d), Downloading(d))
    ELSE IF d["status"] = Some("finished") THEN Put(dp, HookKey(d), Finished(d))
    ELSE dp

(***************************************************************************)
(* What clients send and what the tool reports                             *)
(***************************************************************************)
MaxClock == 3

\* marks a key a dict does not have
Absent == <<"absent", "absent">>

\* the dict of the fields that are not Absent
Dict(fields) == [k \in { x \in DOMAIN fields : fields[x] # Absent } |-> fields[k]]

VID_A == <<"a">>

VID_STAR == <<"a", "*">>

URL_A == <<"h","t","t","p","s",":","/","/","w","w","w",".","y","o","u","t","u","b","e",".","c","o","m","/","w","a","t","c","h","?","v","=","a">>

URL_STAR == <<"h","t","t","p","s",":","/","/","y","o","u","t","u",".","b","e","/","a","*">>

URL_BAD == <<"h","t","t","p","s",":","/","/","e","x","a","m","p","l","e",".","c","o","m","/","a">>

Q_AUDIO_ONLY == <<"A","u","d","i","o"," ","O","n","l","y">>

Q_1080P == <<"1","0","8","0","p">>

Q_LOUD == <<"A","U","D","I","O">>

NoBody == { [kind |-> k, json |-> EmptyDict] : k \in {"malformed", "absent", "null"} }

Object(fields) == [kind |-> "object", json |-> Dict(fields)]

\* bodies that carry no usable URL
UrlLess == NoBody \cup { Object([url |-> u]) : u \in {Absent, PyNone, Some(<<>>), Some(URL_BAD)} }

FormatIds == {Absent, PyNone, Some("bestaudio"), Some(format_string(1080))}

Qualities == {Absent, PyNone, Some(Q_AUDIO_ONLY), Some(Q_1080P), Some(Q_LOUD)}

DownloadOf(url, format_id, quality) ==
    Object([url |-> Some(url), format_id |-> format_id, quality |-> quality])

DownloadBodies == UrlLess \cup { DownloadOf(URL_A, f, q) : f \in FormatIds, q \in Qualities }

Variant(height, vcodec, acodec, tbr, abr, filesize, filesize_approx) ==
    Dict([height |-> height, vcodec |-> vcodec, acodec |-> acodec, tbr |-> tbr,
          abr |-> abr, filesize |-> filesize, filesize_approx |-> filesize_approx])

\* the end-to-end example: heights 1080, 720, 480 and one audio track
INFO_EXAMPLE ==
    [title |-> Some("T"), duration |-> Some(120),
     formats |-> << Variant(Some(480), Some("avc1"), Some("mp4a"), Some(Rat(1000, 1)), Absent, Some(700), Absent),
                    Variant(Some(1080), Some("avc1"), Some("none"), Some(Rat(5000, 1)), Absent, PyNone, PyNone),
                    Variant(PyNone, Some("none"), Some("opus"), Absent, Some(Rat(128, 1)), PyNone, Some(900)),
                    Variant(Some(720), Some("vp9"), Some("none"), Some(Rat(2500, 1)), Absent, Absent, Some(800)) >>]

\* two variants of one height, one of them without a bitrate
INFO_NO_TBR ==
    [title |-> Some("T"), duration |-> Some(120),
     formats |-> << Variant(Some(1080), Some("avc1"), Some("none"), PyNone, Absent, PyNone, PyNone),
                    Variant(Some(1080), Some("vp9"), Some("none"), Some(Rat(6000, 1)), Absent, PyNone, PyNone) >>]

ToolInfos == {Raise("DownloadError"), Ok(INFO_EXAMPLE), Ok(INFO_NO_TBR)}

\* the tool is only asked when the URL is accepted
InfoRequests ==
    { [body |-> b, tool |-> Ok(INFO_EXAMPLE)] : b \in UrlLess }
    \cup { [body |-> Object([url |-> Some(URL_A)]), tool |-> x] : x \in ToolInfos }

TITLE_T == <<"T">>

MISSING_FILE == <<"n","o","f","i","l","e",".","m","p","4">>

(***************************************************************************)
(* The server                                                              *)
(***************************************************************************)
\* a response as the client gets it; `raised` records that the try block
\* ended in an exception
Reply(handler, req, outcome) ==
    [handler |-> handler, req |-> req, raised |-> ~outcome.ok, r |-> Catch(outcome)]

\* stands for the request of a download that is past its configuration
InFlight == [kind |-> "inflight", json |-> EmptyDict]

\* the same once extract_info has returned and named its file
AfterTool(base_filename, wrote) ==
    [kind |-> "returned", json |-> EmptyDict, base_filename |-> base_filename,
     wrote |-> wrote]

\* POST /api/video-info
VideoInfo(body, tool) ==
    /\ \E json \in get_json(body) :
          resp' = Reply("video-info", body, video_info_try(variant, json, tool))
    /\ UNCHANGED <<variant, files, clock, download_progress, calls, dl, arg, ret>>

\* POST /api/download up to the call of the tool
DownloadBegin(t, body) ==
    /\ dl[t].pc = "idle"
    /\ \E json \in get_json(body) :
          LET c == configure(variant, json)
          IN  IF ~c.ok
              THEN /\ resp' = Reply("download", body, c)
                   /\ UNCHANGED dl
              ELSE IF c.v.done
              THEN /\ resp' = Reply("download", body, Ok(c.v.response))
                   /\ UNCHANGED dl
              ELSE /\ dl' = [dl EXCEPT ![t] = [pc |-> "tool", req |-> body,
                                               video_id |-> c.v.video_id,
                                               ydl_opts |-> c.v.ydl_opts]]
                   /\ UNCHANGED resp
    /\ UNCHANGED <<variant, files, clock, download_progress, calls, arg, ret>>

\* the record the tool hands to its progress hooks
HookArgs(t, status, info_dict, percent) ==
    Dict([status |-> Some(status),
          info_dict |-> IF info_dict = "with id" THEN Some([id |-> Some(dl[t].video_id)])
                        ELSE IF info_dict = "without id" THEN Some(EmptyDict)
                        ELSE Absent,
          _percent_str |-> IF status = "downloading" THEN percent ELSE Absent,
          filename |-> IF status = "finished" THEN Some(dl[t].written) ELSE Absent])

\* the tool calls the registered hooks: while downloading, on an error, and
\* once the file is complete; with `trace` the history kept beside the
\* store tells which request the callback came from
ToolHook(t, status, info_dict, percent, trace) ==
    /\ \/ dl[t].pc = "tool" /\ status \in {"downloading", "error"}
       \/ dl[t].pc = "written" /\ status = "finished"
    /\ dl[t].ydl_opts.progress_hooks # <<>>
    /\ LET d == HookArgs(t, status, info_dict, percent)
           k == HookKey(d)
       IN  /\ calls' = IF status = "error" THEN calls
                       ELSE Put(calls, k,
                                [d |-> d,
                                 by |-> IF trace THEN t ELSE "any",
                                 replaced |-> IF trace /\ k \in DOMAIN calls
                                              THEN Some([status |-> calls[k].d["status"],
                                                         by |-> calls[k].by])
                                              ELSE PyNone])
           /\ download_progress' = progress_hook(download_progress, d)
    /\ UNCHANGED <<variant, files, clock, dl, resp, arg, ret>>

\* the tool completes the download of the selected encoding
ToolWrite(t, title, ext) ==
    /\ dl[t].pc = "tool"
    /\ clock <= MaxClock
    /\ LET name == FileName(dl[t].ydl_opts.outtmpl, title, ext)
       IN  /\ files' = Write(files, name, clock)
           /\ dl' = [dl EXCEPT ![t] = [pc |-> "written",
                                       video_id |-> dl[t].video_id,
                                       ydl_opts |-> dl[t].ydl_opts,
                                       written |-> name]]
    /\ clock' = clock + 1
    /\ UNCHANGED <<variant, download_progress, calls, resp, arg, ret>>

\* the extension the configured post-processor leaves
TargetExt(ydl_opts) ==
    IF ydl_opts.postprocessors[1].key = "FFmpegExtractAudio" THEN MP3 ELSE MP4

\* `wrote` keeps the file this run of the tool left on disk, if any
Returned(d, base_filename, wrote) ==
    [pc |-> "returned", video_id |-> d.video_id, base_filename |-> base_filename,
     wrote |-> wrote]

\* the tool post-processes and extract_info returns; prepare_filename then
\* names the file with the title and extension the tool reports
ToolPost(t, title, ext, trace) ==
    /\ dl[t].pc = "written"
    /\ LET src == dl[t].written
           dst == Stem(src) \o DOT \o TargetExt(dl[t].ydl_opts)
       IN  /\ files' = IF Exists(files, src) THEN Write(Remove(files, src), dst, clock)
                       ELSE files
           /\ dl' = [dl EXCEPT ![t] =
                        Returned(dl[t], FileName(dl[t].ydl_opts.outtmpl, title, ext),
                                 IF trace /\ Exists(files, src)
                                 THEN Some([name |-> dst, ctime |-> clock])
                                 ELSE PyNone)]
    /\ clock' = clock + 1
    /\ UNCHANGED <<variant, download_progress, calls, resp, arg, ret>>

\* extract_info returns without having put a file on disk
ToolNothing(t, title, ext) ==
    /\ dl[t].pc = "tool"
    /\ dl' = [dl EXCEPT ![t] = Returned(dl[t], FileName(dl[t].ydl_opts.outtmpl, title, ext),
                                         PyNone)]
    /\ UNCHANGED <<variant, files, clock, download_progress, calls, resp, arg, ret>>

\* the tool raises; the handler answers 500 and removes nothing, so a
\* partial file may stay behind
ToolFail(t, leave) ==
    /\ dl[t].pc \in {"tool", "written"}
    /\ IF leave
       THEN /\ dl[t].pc = "tool"
            /\ clock <= MaxClock
            /\ files' = Write(files,
                              FileName(dl[t].ydl_opts.outtmpl, TITLE_T, WEBM \o DOT \o PART),
                              clock)
            /\ clock' = clock + 1
       ELSE UNCHANGED <<files, clock>>
    /\ resp' = Reply("download", InFlight, Raise("DownloadError"))
    /\ dl' = [dl EXCEPT ![t] = Idle]
    /\ UNCHANGED <<variant, download_progress, calls, arg, ret>>

NotFoundMsg == "Download completed but file not found"

\* download_video after extract_info returned: the file locator
Locate(t) ==
    /\ dl[t].pc = "returned"
    /\ LET names == Located(files, dl[t].video_id, dl[t].base_filename)
       IN  IF names = {}
           THEN resp' = Reply("download", AfterTool(dl[t].base_filename, dl[t].wrote),
                              Ok(Error(500, NotFoundMsg)))
           ELSE \E name \in names :
                    resp' = Reply("download", AfterTool(dl[t].base_filename, dl[t].wrote),
                                  Ok(Located_response(name, dl[t].video_id)))
    /\ dl' = [dl EXCEPT ![t] = Idle]
    /\ UNCHANGED <<variant, files, clock, download_progress, calls, arg, ret>>

\* the try block of download_file
download_file(fs, filename) ==
    IF ~Exists(fs, filename) THEN Ok(Error(404, "File not found"))
    ELSE Ok(Response(200, [file |-> filename, as_attachment |-> TRUE,
                           download_name |-> filename]))

\* GET /api/download-file/<filename>
DownloadFile(filename) ==
    /\ resp' = Reply("download-file", [kind |-> "path", json |-> EmptyDict, name |-> filename],
                     download_file(files, filename))
    /\ UNCHANGED <<variant, files, clock, download_progress, calls, dl, arg, ret>>

\* get_progress(video_id)
get_progress(dp, video_id) == Response(200, Get(dp, video_id, [status |-> "not_found"]))

\* GET /api/progress/<video_id>, a route of ts.py
GetProgress(video_id) ==
    /\ variant = "ts"
    /\ resp' = Reply("progress", [kind |-> "path", json |-> EmptyDict, name |-> video_id],
                     Ok(get_progress(download_progress, video_id)))
    /\ UNCHANGED <<variant, files, clock, download_progress, calls, dl, arg, ret>>

\* the try block of cleanup_downloads: the response and the directory after
cleanup_downloads(fs, json) ==
    IF ~json.ok THEN json
    ELSE LET filename == DataGet(json.v, "filename", PyNone)
         IN  IF ~filename.ok THEN filename
             ELSE IF TruthyStr(filename.v) /\ Exists(fs, Val(filename.v))
             THEN Ok([response |-> Response(200, [success |-> TRUE, message |-> "File deleted"]),
                      files |-> Remove(fs, Val(filename.v))])
             ELSE Ok([response |-> Error(404, "File not found"), files |-> fs])

\* POST /api/cleanup, a route of ts.py
Cleanup(body) ==
    /\ variant = "ts"
    /\ \E json \in get_json(body) :
          LET c == cleanup_downloads(files, json)
          IN  /\ resp' = Reply("cleanup", body, IF c.ok THEN Ok(c.v.response) ELSE c)
              /\ files' = IF c.ok THEN c.v.files ELSE files
    /\ UNCHANGED <<variant, clock, download_progress, calls, dl, arg, ret>>

\* GET /api/health, a route of ts.py
Health ==
    /\ variant = "ts"
    /\ resp' = Reply("health", [kind |-> "none", json |-> EmptyDict],
                     Ok(Response(200, [status |-> "ok", message |-> "Backend is running"])))
    /\ UNCHANGED <<variant, files, clock, download_progress, calls, dl, arg, ret>>

\* the clean-up requests that name one of `paths`, or no file, or have no body
CleanupBodies(nobody, paths) ==
    nobody \cup { Object([filename |-> n]) : n \in {Absent} \cup { Some(x) : x \in paths } }

Init ==
    /\ ServerInit
    /\ arg = Pending
    /\ ret = Pending

\* the server under the requests and tool behaviours that `e` lists
NextOf(e) ==
    \/ \E q \in e.info_requests : VideoInfo(q.body, q.tool)
    \/ \E t \in e.threads, body \in e.download_bodies : DownloadBegin(t, body)
    \/ \E t \in e.threads, status \in e.statuses, i \in e.info_dicts, p \in e.percents :
          ToolHook(t, status, i, p, e.trace)
    \/ \E t \in e.threads, title \in e.titles, ext \in e.exts : ToolWrite(t, title, ext)
    \/ \E t \in e.threads, title \in e.titles, ext \in e.base_exts : ToolPost(t, title, ext, e.trace)
    \/ \E t \in e.threads, title \in e.titles, ext \in e.base_exts : ToolNothing(t, title, ext)
    \/ \E t \in e.threads, leave \in e.leaves : ToolFail(t, leave)
    \/ \E t \in e.threads : Locate(t)
    \/ \E filename \in e.paths : DownloadFile(filename)
    \/ \E video_id \in e.keys : GetProgress(video_id)
    \/ \E body \in CleanupBodies(e.cleanup_nobody, e.paths) : Cleanup(body)
    \/ Health

\* every kind of request, one download at a time, a tool that always
\* reports the same title and extension
EnvRequests ==
    [threads |-> {"t1"},
     info_requests |-> InfoRequests,
     download_bodies |-> DownloadBodies,
     statuses |-> {"downloading"},
     info_dicts |-> {"with id"},
     percents |-> {Absent},
     titles |-> {TITLE_T},
     exts |-> {WEBM},
     base_exts |-> {WEBM},
     leaves |-> {FALSE},
     keys |-> {VID_A},
     trace |-> FALSE,
     cleanup_nobody |-> NoBody,
     paths |-> {FileName(VID_A \o <<"_">>, TITLE_T, MP4), MISSING_FILE}]

Next == NextOf(EnvRequests)

Spec == Init /\ [][Next]_vars

(***************************************************************************)
(* Claims about request handling                                           *)
(***************************************************************************)
Answered(handlers) == resp.handler \in handlers

\* C1 as stated: a POST to /video-info or /download whose JSON body carries
\* no URL, or a URL no pattern matches, is answered 400, never 500 and never
\* a success.
C1_Original ==
    (/\ Answered({"video-info", "download"})
     /\ resp.req \in UrlLess
     /\ resp.req.kind \in {"null", "object"})
    => resp.r.status = 400

AUDIO_UPPER == <<"A","U","D","I","O">>

\* the hint contains "audio" in some mix of upper and lower case
HintsAudio(quality) ==
    \E i \in 1..Len(quality) :
        /\ i + Len(AUDIO) - 1 <= Len(quality)
        /\ \A k \in 1..Len(AUDIO) : quality[i + k - 1] \in {AUDIO[k], AUDIO_UPPER[k]}

IsAudioPipeline(ydl_opts) ==
    /\ ydl_opts.format = Some("bestaudio/best")
    /\ ydl_opts.postprocessors = <<[key |-> "FFmpegExtractAudio",
                                    preferredcodec |-> "mp3",
                                    preferredquality |-> "192"]>>

IsVideoPipeline(ydl_opts) ==
    /\ ydl_opts.merge_output_format = Some("mp4")
    /\ ydl_opts.postprocessors = <<[key |-> "FFmpegVideoConvertor", preferedformat |-> "mp4"]>>

HasValidUrl(body) ==
    /\ body.kind = "object"
    /\ TruthyStr(Get(body.json, "url", PyNone))
    /\ extract_video_id(Val(body.json["url"])) # PyNone

\* the request asks for audio: by its hint, or by the sentinel
AsksAudio(body) ==
    \/ TruthyStr(Get(body.json, "quality", PyNone)) /\ HintsAudio(Val(body.json["quality"]))
    \/ Get(body.json, "format_id", PyNone) = Some("bestaudio")

\* C6 as stated: every /download request with a valid URL gets a pipeline
\* configured, the audio-only one when its hint contains "audio" in any
\* letter case or its format_id is 'bestaudio', the video one otherwise.
C6_Original ==
    /\ \A t \in Threads :
          dl[t].pc = "tool" =>
              IF AsksAudio(dl[t].req) THEN IsAudioPipeline(dl[t].ydl_opts)
              ELSE IsVideoPipeline(dl[t].ydl_opts)
    /\ ~(Answered({"download"}) /\ HasValidUrl(resp.req))

SuppliesFormat(body) == Get(body.json, "format_id", PyNone) # PyNone

\* C7 as stated: in the video pipeline the tool gets the caller's format_id
\* verbatim, or a generic expression when the request supplies none, and in
\* both cases the merge to mp4 and the mp4 conversion step.
C7_Original ==
    \A t \in Threads :
        (dl[t].pc = "tool" /\ ~AsksAudio(dl[t].req)) =>
            /\ IsVideoPipeline(dl[t].ydl_opts)
            /\ IF SuppliesFormat(dl[t].req)
               THEN dl[t].ydl_opts.format = dl[t].req.json["format_id"]
               ELSE dl[t].ydl_opts.format # PyNone

\* C7 amended: in the video pipeline the tool gets the caller's format_id
\* verbatim, and no selection expression at all (None) when the request
\* supplies none; in both cases the merge to mp4 and the mp4 conversion step.
C7_VideoPipeline ==
    \A t \in Threads :
        (dl[t].pc = "tool" /\ ~AsksAudio(dl[t].req)) =>
            /\ IsVideoPipeline(dl[t].ydl_opts)
            /\ IF SuppliesFormat(dl[t].req)
               THEN dl[t].ydl_opts.format = dl[t].req.json["format_id"]
               ELSE dl[t].ydl_opts.format = PyNone

C7_Witness ==
    \E t \in Threads :
        /\ dl[t].pc = "tool"
        /\ dl[t].req = DownloadOf(URL_A, Absent, Some(Q_1080P))
        /\ dl[t].ydl_opts.format = PyNone
        /\ IsVideoPipeline(dl[t].ydl_opts)

GoodInfoBody == Object([url |-> Some(URL_A)])

\* C9: whatever raises inside a handler (a malformed or absent body, an
\* error of the tool) is answered with status 500 and a JSON error body,
\* every error status comes with an error body, and in whatever state the
\* failures left the server a good request is answered 200.
C9_Boundary ==
    /\ (~Answered({"none"}) /\ resp.raised) =>
           (resp.r.status = 500 /\ DOMAIN resp.r.body = {"error"})
    /\ (~Answered({"none"}) /\ resp.r.status >= 400) => "error" \in DOMAIN resp.r.body
    /\ (Answered({"video-info", "download"}) /\ resp.req \in NoBody) =>
           resp.r.status \in {400, 500}
    /\ (Answered({"video-info"}) /\ resp.req = GoodInfoBody /\ ~resp.raised) =>
           resp.r.status = 200

C9_Witness ==
    /\ Answered({"download"})
    /\ resp.req = InFlight
    /\ resp.raised
    /\ resp.r = Error(500, "DownloadError")
    /\ files # {}

\* a POST /api/cleanup is answered in this step
AnswersCleanup ==
    /\ resp'.handler = "cleanup"
    /\ resp'.req.kind \in {"null", "object"}
    /\ UNCHANGED <<dl, clock, download_progress>>
    /\ (resp' # resp \/ files' # files)

\* the request names a file: its body is an object with a non-empty filename
NamesFile(req) ==
    /\ req.kind = "object"
    /\ "filename" \in DOMAIN req.json
    /\ req.json["filename"] \notin {PyNone, Some(<<>>)}

CleanupAnswer ==
    IF NamesFile(resp'.req) /\ (\E f \in files : f.name = Val(resp'.req.json["filename"]))
    THEN /\ resp'.r.status = 200
         /\ resp'.r.body.success
         /\ files' = { f \in files : f.name # Val(resp'.req.json["filename"]) }
    ELSE /\ resp'.r.status = 404
         /\ files' = files

\* a GET /api/download-file/<filename> is answered in this step
AnswersDownloadFile == resp'.handler = "download-file" /\ resp' # resp

DownloadFileAnswer ==
    (resp'.r.status = 404) <=> ~(\E f \in files : f.name = resp'.req.name)

\* C11 as stated: POST /cleanup with the name of a file on disk removes
\* exactly that file and answers success; with a missing filename or the
\* name of a file not on disk it answers 404 and leaves the directory as it
\* is; GET /download-file/f answers 404 exactly while f is not on disk, so
\* from a successful cleanup of f until a download writes f again.
C11_Original ==
    [][/\ AnswersCleanup => CleanupAnswer
       /\ AnswersDownloadFile => DownloadFileAnswer]_vars

(***************************************************************************)
(* The file locator                                                        *)
(***************************************************************************)
\* two identifiers, one of them with a "*", both pipelines, a tool free in
\* the extension it reports, partial files, clean-ups
EnvLocate ==
    [threads |-> {"t1"},
     info_requests |-> {[body |-> GoodInfoBody, tool |-> Raise("DownloadError")]},
     download_bodies |-> {DownloadOf(URL_A, Some(format_string(1080)), Absent),
                          DownloadOf(URL_A, Some("bestaudio"), Absent),
                          DownloadOf(URL_STAR, Some("bestaudio"), Absent)},
     statuses |-> {"finished"},
     info_dicts |-> {"with id"},
     percents |-> {Absent},
     titles |-> {TITLE_T},
     exts |-> {WEBM},
     base_exts |-> {WEBM, MP4},
     leaves |-> {FALSE, TRUE},
     keys |-> {VID_A},
     trace |-> FALSE,
     cleanup_nobody |-> {},
     paths |-> {FileName(VID_A \o <<"_">>, TITLE_T, MP4)}]

NextLocate == NextOf(EnvLocate)

SpecLocate == Init /\ [][NextLocate]_vars

\* the locator of thread t answers in this step
Locates(t) == dl[t].pc = "returned" /\ dl'[t].pc = "idle"

NamedFor(video_id, fs) ==
    { f \in fs : /\ Len(f.name) > Len(video_id)
                 /\ SubSeq(f.name, 1, Len(video_id) + 1) = video_id \o <<"_">> }

\* the prepared name and its four siblings; the tool of this model always
\* reports the title TITLE_T
Candidates(video_id, base_filename) ==
    <<base_filename,
      FileName(video_id \o <<"_">>, TITLE_T, MP4),
      FileName(video_id \o <<"_">>, TITLE_T, MP3),
      FileName(video_id \o <<"_">>, TITLE_T, M4A),
      FileName(video_id \o <<"_">>, TITLE_T, WEBM)>>

OnDisk(name) == \E f \in files : f.name = name

LocatorAnswer(t) ==
    LET video_id == dl[t].video_id
        cands == Candidates(video_id, dl[t].base_filename)
        hits == { i \in 1..Len(cands) : OnDisk(cands[i]) }
        named == NamedFor(video_id, files)
    IN  IF hits # {}
        THEN /\ resp'.r.status = 200
             /\ resp'.r.body.filename = cands[CHOOSE i \in hits : \A j \in hits : i <= j]
             /\ resp'.r.body.download_id = video_id
        ELSE IF named # {}
        THEN /\ resp'.r.status = 200
             /\ \E f \in named : /\ f.name = resp'.r.body.filename
                                 /\ \A g \in named : g.ctime <= f.ctime
             /\ resp'.r.body.download_id = video_id
        ELSE resp'.r = Error(500, NotFoundMsg)

\* C8: once the tool has returned, the answer names the first file that
\* exists among the prepared name and its .mp4, .mp3, .m4a and .webm
\* siblings; failing that the most recently created file whose name starts
\* with the identifier and "_"; failing that it is the 500 'Download
\* completed but file not found'.
C8_Locator == [][\A t \in Threads : Locates(t) => LocatorAnswer(t)]_vars

(***************************************************************************)
(* The progress store under concurrent downloads                           *)
(***************************************************************************)
\* two downloads of the same video at once, every kind of callback
EnvProgress ==
    [threads |-> Threads,
     info_requests |-> {[body |-> GoodInfoBody, tool |-> Raise("DownloadError")]},
     download_bodies |-> {DownloadOf(URL_A, Some("bestaudio"), Absent)},
     statuses |-> {"downloading", "finished", "error"},
     info_dicts |-> {"with id", "without id", "absent"},
     percents |-> {Absent, Some("50%")},
     titles |-> {TITLE_T},
     exts |-> {WEBM},
     base_exts |-> {WEBM},
     leaves |-> {FALSE},
     keys |-> {VID_A, UNKNOWN},
     trace |-> FALSE,
     cleanup_nobody |-> {},
     paths |-> {MISSING_FILE}]

NextProgress == NextOf(EnvProgress)

SpecProgress == Init /\ [][NextProgress]_vars

\* what a callback with the record d leaves under its key
Snapshot(d) ==
    IF d["status"] = Some("downloading")
    THEN [status |-> "downloading",
          percent |-> IF "_percent_str" \in DOMAIN d THEN d["_percent_str"] ELSE Some("0%"),
          speed |-> Some("N/A"),
          eta |-> Some("N/A")]
    ELSE [status |-> "finished", filename |-> d["filename"]]

\* the store holds, for each key, the snapshot of the last callback that
\* reported under it, and nothing for the other keys
LastSnapshots ==
    /\ DOMAIN download_progress = DOMAIN calls
    /\ \A k \in DOMAIN calls : download_progress[k] = Snapshot(calls[k].d)

\* a GET /progress/<video_id> is answered in this step
AnswersProgress == resp'.handler = "progress" /\ resp' # resp

ProgressAnswer ==
    LET k == resp'.req.name
    IN  /\ resp'.r.status = 200
        /\ resp'.r.body = IF k \in DOMAIN calls THEN Snapshot(calls[k].d)
                          ELSE [status |-> "not_found"]

NeverEvicted == \A k \in DOMAIN download_progress : k \in DOMAIN download_progress'

\* C10: GET /progress/<video_id> returns the snapshot of the most recent
\* callback that wrote the key, or {status: not_found} when none ever did;
\* each callback overwrites the snapshot of its key and an entry, once
\* written, stays for the lifetime of the process.
C10_LastSnapshot ==
    /\ []LastSnapshots
    /\ [][(AnswersProgress => ProgressAnswer) /\ NeverEvicted]_vars

\* a finished snapshot has replaced a downloading one and is what the
\* client was given
C10_Witness ==
    /\ Answered({"progress"})
    /\ resp.req.name = VID_A
    /\ resp.r.body.status = "finished"
    /\ VID_A \in DOMAIN download_progress
    /\ download_progress[VID_A] = resp.r.body
    /\ \E t \in Threads : dl[t].pc = "tool"

\* a callback is registered for every download that is inside the tool
HookRegistered ==
    \A t \in Threads :
        dl[t].pc \in {"tool", "written"} => dl[t].ydl_opts.progress_hooks # <<>>

\* the identifiers extract_video_id gives for the download requests of
\* EnvProgress
IdentifiersAsked ==
    { Val(extract_video_id(Val(b.json["url"]))) : b \in EnvProgress.download_bodies }

\* every snapshot is stored under the identifier of a request
KeyedByIdentifier == DOMAIN download_progress \subseteq IdentifiersAsked

\* a successful /download returns that identifier as download_id
DownloadIdIsIdentifier ==
    (Answered({"download"}) /\ resp.r.status = 200)
        => resp.r.body.download_id \in IdentifiersAsked

\* once a callback of a download has written, polling its identifier does
\* not give not_found
PollFindsSnapshot ==
    (AnswersProgress /\ resp'.req.name \in IdentifiersAsked /\ DOMAIN calls # {})
        => resp'.r.body.status # "not_found"

\* C13 as stated: during a /download whose identifier is v a progress
\* callback is registered, every snapshot it writes is stored under v, the
\* value the response returns as download_id, and GET /progress/v during or
\* after the download returns that snapshot rather than not_found.
C13_Original ==
    /\ [](HookRegistered /\ KeyedByIdentifier /\ DownloadIdIsIdentifier)
    /\ [][PollFindsSnapshot]_vars

(***************************************************************************)
(* Downloads and clean-ups one at a time                                   *)
(***************************************************************************)
\* one request thread, the same video at two quality tiers, failures that
\* leave a partial file; the file each run of the tool wrote is kept
EnvSequential ==
    [threads |-> {"t1"},
     info_requests |-> {[body |-> GoodInfoBody, tool |-> Raise("DownloadError")]},
     download_bodies |-> {DownloadOf(URL_A, Some(format_string(1080)), Absent),
                          DownloadOf(URL_A, Some("bestaudio"), Absent)},
     statuses |-> {"finished"},
     info_dicts |-> {"with id"},
     percents |-> {Absent},
     titles |-> {TITLE_T},
     exts |-> {WEBM},
     base_exts |-> {WEBM},
     leaves |-> {FALSE, TRUE},
     keys |-> {VID_A},
     trace |-> TRUE,
     cleanup_nobody |-> {},
     paths |-> {FileName(VID_A \o <<"_">>, TITLE_T, MP4)}]

\* no request is being handled
NoneInFlight == \A t \in EnvSequential.threads : dl[t].pc = "idle"

\* /download and /cleanup requests served one after the other: a /cleanup
\* is taken up only when no download is being handled
NextSequential ==
    \/ \E t \in EnvSequential.threads, body \in EnvSequential.download_bodies :
          DownloadBegin(t, body)
    \/ \E t \in EnvSequential.threads, status \in EnvSequential.statuses,
          i \in EnvSequential.info_dicts, p \in EnvSequential.percents :
          ToolHook(t, status, i, p, EnvSequential.trace)
    \/ \E t \in EnvSequential.threads, title \in EnvSequential.titles,
          ext \in EnvSequential.exts : ToolWrite(t, title, ext)
    \/ \E t \in EnvSequential.threads, title \in EnvSequential.titles,
          ext \in EnvSequential.base_exts : ToolPost(t, title, ext, EnvSequential.trace)
    \/ \E t \in EnvSequential.threads, title \in EnvSequential.titles,
          ext \in EnvSequential.base_exts : ToolNothing(t, title, ext)
    \/ \E t \in EnvSequential.threads, leave \in EnvSequential.leaves : ToolFail(t, leave)
    \/ \E t \in EnvSequential.threads : Locate(t)
    \/ /\ NoneInFlight
       /\ \E body \in CleanupBodies(EnvSequential.cleanup_nobody, EnvSequential.paths) :
             Cleanup(body)

SpecSequential == Init /\ [][NextSequential]_vars

\* the last response is the success of a /download whose tool wrote a file
DownloadSucceeded ==
    /\ Answered({"download"})
    /\ resp.req.kind = "returned"
    /\ resp.r.status = 200
    /\ resp.req.wrote # PyNone

\* C14 as stated: with requests handled one at a time, the file a /download
\* success names is the file that request's own download wrote, never one
\* an earlier download of the same identifier left behind.
C14_Original == DownloadSucceeded => resp.r.body.filename = Val(resp.req.wrote).name

(***************************************************************************)
(* Two downloads of one video at the same time                             *)
(***************************************************************************)
\* both request threads download the same URL; the history beside the
\* store and the files each run wrote are kept
EnvRace ==
    [threads |-> Threads,
     info_requests |-> {[body |-> GoodInfoBody, tool |-> Raise("DownloadError")]},
     download_bodies |-> {DownloadOf(URL_A, Some("bestaudio"), Absent)},
     statuses |-> {"downloading", "finished"},
     info_dicts |-> {"with id"},
     percents |-> {Absent},
     titles |-> {TITLE_T},
     exts |-> {WEBM},
     base_exts |-> {WEBM},
     leaves |-> {FALSE},
     keys |-> {VID_A},
     trace |-> TRUE,
     cleanup_nobody |-> {},
     paths |-> {MISSING_FILE}]

NextRace == NextOf(EnvRace)

SpecRace == Init /\ [][NextRace]_vars

\* the request of thread t is inside the tool
InTool(t) == dl[t].pc \in {"tool", "written"}

\* C12: two /download requests for one identifier are not coordinated:
\* while both are inside the tool they hold the same output-path template,
\* and whatever callbacks have come the Progress Store has the one entry of
\* that identifier for both (so a 'downloading' snapshot of one can replace
\* the 'finished' snapshot of the other, and the response of one can name
\* the file the other wrote).
C12_Uncoordinated ==
    /\ \A t, u \in Threads :
          (InTool(t) /\ InTool(u) /\ dl[t].video_id = dl[u].video_id)
              => dl[t].ydl_opts.outtmpl = dl[u].ydl_opts.outtmpl
    /\ DOMAIN download_progress \subseteq {VID_A}

\* the store shows the 'downloading' snapshot of t that replaced the
\* 'finished' snapshot of u, and the request of t, which wrote no file, was
\* answered with the file that the still running request of u wrote
C12_Witness ==
    \E t, u \in Threads :
        /\ t # u
        /\ VID_A \in DOMAIN calls
        /\ download_progress[VID_A].status = "downloading"
        /\ calls[VID_A].by = t
        /\ calls[VID_A].replaced = Some([status |-> Some("finished"), by |-> u])
        /\ dl[t].pc = "idle"
        /\ dl[u].pc = "returned"
        /\ dl[u].wrote # PyNone
        /\ Val(dl[u].wrote) \in files
        /\ Answered({"download"})
        /\ resp.req.kind = "returned"
        /\ resp.req.wrote = PyNone
        /\ resp.r.status = 200
        /\ resp.r.body.filename = Val(dl[u].wrote).name

(***************************************************************************)
(* The normalizer on its own: get_video_info on the variant lists the tool *)
(* may hand it                                                             *)
(***************************************************************************)
MaxVariants == 3

VideoVariant(height, vcodec, tbr) ==
    Variant(Some(height), Some(vcodec), Some("none"), tbr, Absent, PyNone, PyNone)

AudioVariant(acodec, abr) ==
    Variant(PyNone, Some("none"), Some(acodec), Absent, abr, PyNone, PyNone)

\* variants told apart by their codec: several of height 1080 (two with the
\* same top bitrate, one with a tbr of None, one without the key), other
\* heights, a height outside the canonical list, audio tracks
VariantPool ==
    { VideoVariant(1080, "avc1", Some(Rat(4000, 1))),
      VideoVariant(1080, "vp9", Some(Rat(6000, 1))),
      VideoVariant(1080, "vp09", Some(Rat(6000, 1))),
      VideoVariant(1080, "av01", PyNone),
      VideoVariant(1080, "hev1", Absent),
      VideoVariant(720, "avc1", Some(Rat(2500, 1))),
      VideoVariant(1000, "avc1", Some(Rat(3000, 1))),
      AudioVariant("opus", Some(Rat(160, 1))),
      AudioVariant("mp4a", Some(Rat(128, 1))) }

VariantLists == UNION { [1..m -> VariantPool] : m \in 0..MaxVariants }

OrderInfos ==
    { [title |-> Some("T"), duration |-> Some(120), formats |-> fs] : fs \in VariantLists }
    \cup {INFO_EXAMPLE}

\* one video variant and one audio track, with every way of reporting or
\* not reporting a size, a bitrate and a duration
Sizes(n) == {Absent, PyNone, Some(0), Some(n)}

Tbrs ==
    {Absent, PyNone, Some(Rat(0, 1)), Some(Rat(5000, 1)), Some(Rat(3, 10)), Some(Rat(1, 1000))}

Durations == {Absent, PyNone, Some(0), Some(120), Some(7)}

SizeInfo(d, tbr, fsz, apx) ==
    LET info == [title |-> Some("T"),
                 formats |-> << Variant(Some(1080), Some("avc1"), Some("none"), tbr, Absent,
                                        fsz, apx),
                                Variant(PyNone, Some("none"), Some("opus"), tbr,
                                        Some(Rat(128, 1)), apx, fsz) >>]
    IN  IF d = Absent THEN info ELSE Put(info, "duration", d)

SizeInfos ==
    { SizeInfo(d, tbr, fsz, apx) :
        d \in Durations, tbr \in Tbrs, fsz \in Sizes(700), apx \in Sizes(800) }

InitNormalize ==
    /\ ServerInit
    /\ arg \in OrderInfos \cup SizeInfos
    /\ ret = Pending

\* POST /api/video-info with a valid URL, the tool answering with `arg`
Normalize ==
    /\ ret = Pending
    /\ ret' = Some(Catch(video_info_try(variant, Ok(Some(GoodInfoBody.json)), Ok(arg))))
    /\ UNCHANGED <<arg, serverVars>>

NextNormalize == Normalize

SpecNormalize == InitNormalize /\ [][NextNormalize]_vars

Normalized == ret # Pending

\* the response of the normalized request
Answer == Val(ret)

RawVariants == arg.formats

Present(f, k) == k \in DOMAIN f /\ f[k] # PyNone

\* a variant that has video: a video codec other than "none" and a height
CarriesVideo(f) ==
    /\ ~(Present(f, "vcodec") /\ f["vcodec"] = Some("none"))
    /\ Present(f, "height")
    /\ Val(f["height"]) # 0

\* an audio-only variant
CarriesAudioOnly(f) ==
    /\ Present(f, "vcodec") /\ f["vcodec"] = Some("none")
    /\ ~(Present(f, "acodec") /\ f["acodec"] = Some("none"))

CanonicalHeights == {2160, 1440, 1080, 720, 480, 360, 240, 144}

VideoAt(h) ==
    { i \in 1..Len(RawVariants) :
        CarriesVideo(RawVariants[i]) /\ Val(RawVariants[i]["height"]) = h }

HeightsPresent == { h \in CanonicalHeights : VideoAt(h) # {} }

Descending(hs) ==
    CHOOSE q \in [1..Cardinality(hs) -> hs] :
        \A i, j \in 1..Cardinality(hs) : i < j => q[i] > q[j]

HasAudioTrack == \E i \in 1..Len(RawVariants) : CarriesAudioOnly(RawVariants[i])

ExpectedQualities ==
    [i \in 1..Cardinality(HeightsPresent) |-> ToString(Descending(HeightsPresent)[i]) \o "p"]
    \o (IF HasAudioTrack THEN <<"Audio Only">> ELSE <<>>)

\* C3 as stated: for every raw variant list the response carries the
\* formats list with one video tier per canonical height present among the
\* has-video variants, in descending order, then one audio tier exactly
\* when an audio-only variant exists, each with a non-empty selection
\* expression.
C3_Original ==
    Normalized =>
        /\ Answer.status = 200
        /\ [i \in 1..Len(Answer.body.formats) |-> Answer.body.formats[i].quality] = ExpectedQualities
        /\ \A i \in 1..Len(Answer.body.formats) : Answer.body.formats[i].format_id # ""

\* the bitrate of a variant, one that reports none counting as the lowest
Bitrate(f) == IF Present(f, "tbr") THEN Val(f["tbr"]) ELSE Rat(0, 1)

\* the first variant of height h with the maximum bitrate
TopOf(h) ==
    CHOOSE i \in VideoAt(h) :
        /\ \A j \in VideoAt(h) : ~RatGt(Bitrate(RawVariants[j]), Bitrate(RawVariants[i]))
        /\ \A j \in VideoAt(h) :
              (j < i) => RatGt(Bitrate(RawVariants[i]), Bitrate(RawVariants[j]))

\* C4 as stated: for every order of the variants, and also when some of
\* them report no bitrate, the tier of a height is built from the first
\* variant with the maximum bitrate among the has-video variants of that
\* height.
C4_Original ==
    Normalized =>
        /\ Answer.status = 200
        /\ \A h \in HeightsPresent :
              \E i \in 1..Len(Answer.body.formats) :
                  /\ Answer.body.formats[i].quality = ToString(h) \o "p"
                  /\ Answer.body.formats[i].vcodec = RawVariants[TopOf(h)]["vcodec"]

\* reported and not zero
Known(f, k) == Present(f, k) /\ Val(f[k]) # 0

KnownRate(f, k) == Present(f, k) /\ Val(f[k]).n # 0

\* the audio-only variant the audio tier is built from: the first with the
\* highest abr
AudioAt == { i \in 1..Len(RawVariants) : CarriesAudioOnly(RawVariants[i]) }

AudioRate(f) == IF Present(f, "abr") THEN Val(f["abr"]) ELSE Rat(0, 1)

TopAudio ==
    CHOOSE i \in AudioAt :
        /\ \A j \in AudioAt : ~RatGt(AudioRate(RawVariants[j]), AudioRate(RawVariants[i]))
        /\ \A j \in AudioAt : (j < i) => RatGt(AudioRate(RawVariants[i]), AudioRate(RawVariants[j]))

TierOf(quality) ==
    Answer.body.formats[CHOOSE i \in 1..Len(Answer.body.formats) :
                            Answer.body.formats[i].quality = quality]

\* the tier reports no size and carries the label `text`
SizeUnknown(tier, text) ==
    /\ tier.filesize \in {PyNone, Some(0)}
    /\ tier.filesize_str = [text |-> text]

\* the tier reports n bytes, formatted
SizeIs(tier, n) ==
    /\ tier.filesize = Some(n)
    /\ "unit" \in DOMAIN tier.filesize_str

AudioSized ==
    HasAudioTrack =>
        LET f == RawVariants[TopAudio]
            tier == TierOf("Audio Only")
        IN  IF Known(f, "filesize") THEN SizeIs(tier, Val(f["filesize"]))
            ELSE IF Known(f, "filesize_approx") THEN SizeIs(tier, Val(f["filesize_approx"]))
            ELSE SizeUnknown(tier, "Unknown")

\* C5 as stated: reported size, else approximate size, else exactly
\* bitrate * duration * 1024 / 8 when both are known, else unknown; the
\* audio tier without the estimate.
C5_Original ==
    (Normalized /\ Answer.status = 200) =>
        /\ \A h \in HeightsPresent :
              LET f == RawVariants[TopOf(h)]
                  tier == TierOf(ToString(h) \o "p")
              IN  IF Known(f, "filesize") THEN SizeIs(tier, Val(f["filesize"]))
                  ELSE IF Known(f, "filesize_approx")
                  THEN SizeIs(tier, Val(f["filesize_approx"]))
                  ELSE IF KnownRate(f, "tbr") /\ Known(arg, "duration")
                  THEN /\ tier.filesize # PyNone
                       /\ Val(tier.filesize) * 8 * Val(f["tbr"]).d
                              = Val(f["tbr"]).n * Val(arg["duration"]) * 1024
                  ELSE SizeUnknown(tier, "Estimated")
        /\ AudioSized

\* the whole bytes of bitrate * duration * 1024 / 8
WholeBytes(tbr, duration) == (tbr.n * duration * 128) \div tbr.d

\* C5 amended: a size counts as reported when it is there and not zero;
\* the estimate is bitrate * duration * 1024 / 8 cut down to whole bytes,
\* made when bitrate and duration are there and not zero, and an estimate
\* of zero bytes is shown as unknown; the audio tier has no estimate.
C5_Size ==
    (Normalized /\ Answer.status = 200) =>
        /\ \A h \in HeightsPresent :
              LET f == RawVariants[TopOf(h)]
                  tier == TierOf(ToString(h) \o "p")
              IN  IF Known(f, "filesize") THEN SizeIs(tier, Val(f["filesize"]))
                  ELSE IF Known(f, "filesize_approx")
                  THEN SizeIs(tier, Val(f["filesize_approx"]))
                  ELSE IF /\ KnownRate(f, "tbr")
                          /\ Known(arg, "duration")
                          /\ WholeBytes(Val(f["tbr"]), Val(arg["duration"])) > 0
                  THEN SizeIs(tier, WholeBytes(Val(f["tbr"]), Val(arg["duration"])))
                  ELSE SizeUnknown(tier, "Estimated")
        /\ AudioSized

\* bitrate 5000 over 120 seconds with no size reported
C5_Witness ==
    /\ Normalized
    /\ arg = SizeInfo(Some(120), Some(Rat(5000, 1)), PyNone, Absent)
    /\ Answer.status = 200
    /\ Answer.body.formats[1].filesize = Some(76800000)
    /\ Answer.body.formats[2].filesize_str = [text |-> "Unknown"]

(***************************************************************************)
(* extract_video_id on its own                                             *)
(***************************************************************************)
MaxIdFrags == 2

RECURSIVE Flatten(_)
Flatten(ss) == IF ss = <<>> THEN <<>> ELSE Head(ss) \o Flatten(Tail(ss))

\* pieces identifiers are put together from
IdFrags == { <<"a">>, <<"b", "-">>, <<"_">>, SHORT_LIT, <<"&">>, <<"#">> }

FragSeqs(n) == UNION { [1..m -> IdFrags] : m \in 0..n }

Ids == { Flatten(fs) : fs \in FragSeqs(MaxIdFrags) }

\* what may follow the identifier in a URL
Suffixes == { <<>>, <<"&", "t", "=", "1">>, <<"?", "s">>, <<"#", "x">> }

Shapes == {"watch", "short", "embed", "v", "other"}

HTTPS_WWW == <<"h","t","t","p","s",":","/","/","w","w","w",".">>

HTTPS == <<"h","t","t","p","s",":","/","/">>

OTHER_HOST == <<"e","x","a","m","p","l","e",".","c","o","m","/">>

BuildUrl(shape, id, suffix) ==
    CASE shape = "watch" -> HTTPS_WWW \o WATCH_LIT \o id \o suffix
      [] shape = "short" -> HTTPS \o SHORT_LIT \o id \o suffix
      [] shape = "embed" -> HTTPS_WWW \o EMBED_LIT \o id \o suffix
      [] shape = "v"     -> HTTPS_WWW \o V_LIT \o id \o suffix
      [] OTHER           -> HTTPS \o OTHER_HOST \o id \o suffix

InitExtract ==
    /\ ServerInit
    /\ arg \in [shape : Shapes, id : Ids, suffix : Suffixes]
    /\ ret = Pending

ApplyExtract ==
    /\ ret = Pending
    /\ ret' = extract_video_id(BuildUrl(arg.shape, arg.id, arg.suffix))
    /\ UNCHANGED <<arg, serverVars>>

NextExtract == ApplyExtract

SpecExtract == InitExtract /\ [][NextExtract]_vars

HasExcluded(s) == \E k \in 1..Len(s) : s[k] \in Excluded

\* the short-URL host followed by one more character occurs inside s
EmbedsShort(s) == \E i \in 1..Len(s) : AltAt(SHORT_LIT, s, i)

IdShapes == {"watch", "short", "embed"}

\* C2 as stated: every non-empty identifier without & \n ? # comes back
\* unchanged from its watch, short and embed URL.
C2_Original ==
    (/\ ret # Pending
     /\ arg.shape \in IdShapes
     /\ arg.id # <<>>
     /\ ~HasExcluded(arg.id))
    => ret = Some(arg.id)

\* C2 amended: the same, for identifiers that do not themselves contain the
\* short-URL host "youtu.be/" followed by a further character; and because
\* the patterns are tried in order, an embed URL whose identifier does
\* contain it yields the first pattern's capture, not the identifier.
C2_Extract ==
    /\ (/\ ret # Pending
        /\ arg.shape \in IdShapes
        /\ arg.id # <<>>
        /\ ~HasExcluded(arg.id)
        /\ ~EmbedsShort(arg.id))
       => ret = Some(arg.id)
    /\ (/\ ret # Pending
        /\ arg.shape = "embed"
        /\ ~HasExcluded(arg.id)
        /\ EmbedsShort(arg.id))
       => (ret # PyNone /\ ret # Some(arg.id) /\ Len(Val(ret)) < Len(arg.id))

\* an embed URL with a query after the identifier gave the identifier back
C2_Witness ==
    /\ ret # Pending
    /\ ret = Some(<<"a", "b", "-">>)
    /\ arg.shape = "embed"
    /\ arg.suffix = <<"&", "t", "=", "1">>

====
